---- MODULE Spec2Model ----
(***************************************************************************)
(* Model of FlightFinder.py: the RouteGraph adjacency structure, the two   *)
(* searches fewest_legs (BFS) and least_distance (Dijkstra with a hop      *)
(* tie-break), unique_list, and RouteFinderApp's background loader and     *)
(* compute_routes handler.                                                 *)
(*                                                                         *)
(* Airport codes are Python strings; the model uses small integers for     *)
(* them, whose order stands for the string order heapq compares by.        *)
(***************************************************************************)
EXTENDS Integers, Sequences, FiniteSets, TLC

\* ------------------------------------------------------------------ bounds
MaxRoutes == 3      \* add_route calls made on a RouteGraph before it is queried
MaxFairRoutes == 2  \* the same, in the runs checked for termination
MaxRows == 3        \* rows of the parsed table handed to unique_list
MaxPops == 6        \* least_distance pops followed in the application runs

Airports == {1, 2, 3}
Aircraft == {"X", "Y"}
\* Queries ask for "X"; "Y" is the aircraft type the filter has to leave out.
\* Only the "X" routes between two different airports come in several lengths:
\* the length of a filtered-out route or of a self-loop enters no result.
QueryAircraft == {"X"}
Distances(dep, dest, ac) ==
    IF ac \in QueryAircraft /\ dep # dest THEN {1, 2, 3} ELSE {1}

AppAirports == {1, 2}
AppAircraft == {"X"}
AppDistances == {0 - 1, 0, 1, 2}

VARIABLES
    graph,        \* RouteGraph.graph: departure -> sequence of edges (defaultdict)
    rows,         \* load_routes: parse_routes_from_string(response.text)
    routes,       \* RouteFinderApp.routes
    loader,       \* position of the load_routes thread ("none": no app, bare graph)
    addIdx,       \* load_routes: index of the next route of the add loop
    inputs,       \* state of the four buttons
    output,       \* last message written to the output box
    start,        \* query arguments
    end,
    aircraft,
    pc,           \* position of the caller running the two searches
    queue,        \* fewest_legs: deque of (airport, path)
    visited,      \* fewest_legs: visited set
    pq,           \* least_distance: heap of (dist, hops, airport, path)
    best,         \* least_distance: visited dict airport -> (dist, hops)
    fl,           \* value returned by fewest_legs
    ld,           \* value returned by least_distance
    legs,         \* compute_routes: the leg_dist values written to the output
    graphAtCall,  \* the graph mapping when the current query started
    expandedFL,   \* fewest_legs: how often each airport was expanded in this call
    expandedLD,   \* least_distance: the same
    pops          \* least_distance: loop iterations of this call

vars == <<graph, rows, routes, loader, addIdx, inputs, output, start, end,
          aircraft, pc, queue, visited, pq, best, fl, ld, legs, graphAtCall,
          expandedFL, expandedLD, pops>>

\* ------------------------------------------------------------- RouteGraph
EmptyGraph == [a \in {} |-> <<>>]

\* The value a read of graph.graph[a] yields.
EdgesOf(g, a) == IF a \in DOMAIN g THEN g[a] ELSE <<>>

\* defaultdict(list).__getitem__: a read of a missing key stores an empty list.
GetItem(g, a) == [x \in (DOMAIN g) \cup {a} |-> EdgesOf(g, x)]

Edge(dest, ac, distance) == [dest |-> dest, aircraft |-> ac, distance |-> distance]

add_route(g, dep, dest, ac, distance) ==
    [x \in (DOMAIN g) \cup {dep} |->
        IF x = dep THEN Append(EdgesOf(g, dep), Edge(dest, ac, distance))
                   ELSE g[x]]

NumEdges(g) ==
    LET RECURSIVE Sum(_)
        Sum(S) == IF S = {} THEN 0
                  ELSE LET a == CHOOSE x \in S : TRUE
                       IN Len(g[a]) + Sum(S \ {a})
    IN Sum(DOMAIN g)

\* ---------------------------------------------------------------- searches
\* Variant: the aircraft filter left out.
MatchesAnyAircraft(e, ac) == TRUE

\* `if edge["aircraft"] != aircraft: continue`
MatchesAircraft(e, ac) == e.aircraft = ac

Matching(edges, ac) == SelectSeq(edges, LAMBDA e : MatchesAircraft(e, ac))

\* Variant: the path of the first entry starts empty.
StartEntryEmptyPath(s) == [airport |-> s, path |-> <<>>]

\* The first frontier entry of fewest_legs: (start, [start]).
StartEntry(s) == [airport |-> s, path |-> <<s>>]

\* Variant: appendleft, which turns the traversal depth-first.
EnqueueAllFront(q, path, m) ==
    [i \in 1..Len(m) |-> [airport |-> m[i].dest, path |-> Append(path, m[i].dest)]] \o q

\* queue.append for every matching edge, in stored order.
EnqueueAll(q, path, m) ==
    q \o [i \in 1..Len(m) |-> [airport |-> m[i].dest, path |-> Append(path, m[i].dest)]]

\* `if airport in visited: continue`
AlreadyVisited(a, vis) == a \in vis

\* The first heap entry of least_distance: (0, 0, start, [start]).
StartHeapEntry(s) == [dist |-> 0, hops |-> 0, airport |-> s, path |-> <<s>>]

\* Python's list comparison: the first differing element decides, a proper
\* prefix is smaller.
PathLess(p, q) ==
    \E i \in 1..Len(q) :
        /\ i - 1 <= Len(p)
        /\ \A j \in 1..(i - 1) : p[j] = q[j]
        /\ (i > Len(p) \/ p[i] < q[i])

\* Variants: heap entries built as (hops, dist, airport, path), and as
\* (dist, airport, path) without the hop count.
EntryLessHopsFirst(a, b) ==
    \/ a.hops < b.hops
    \/ a.hops = b.hops /\ a.dist < b.dist
    \/ a.hops = b.hops /\ a.dist = b.dist /\ a.airport < b.airport
    \/ a.hops = b.hops /\ a.dist = b.dist /\ a.airport = b.airport
       /\ PathLess(a.path, b.path)

EntryLessNoHops(a, b) ==
    \/ a.dist < b.dist
    \/ a.dist = b.dist /\ a.airport < b.airport
    \/ a.dist = b.dist /\ a.airport = b.airport /\ PathLess(a.path, b.path)

\* Python's tuple comparison of two heap entries (dist, hops, airport, path).
EntryLess(a, b) ==
    \/ a.dist < b.dist
    \/ a.dist = b.dist /\ a.hops < b.hops
    \/ a.dist = b.dist /\ a.hops = b.hops /\ a.airport < b.airport
    \/ a.dist = b.dist /\ a.hops = b.hops /\ a.airport = b.airport
       /\ PathLess(a.path, b.path)

\* heapq.heappush; the heap is kept as the ascending sequence of its entries,
\* so that heappop (the least entry) is the head.
HeapPush(h, e) ==
    LET k == Cardinality({i \in 1..Len(h) : ~EntryLess(e, h[i])})
    IN SubSeq(h, 1, k) \o <<e>> \o SubSeq(h, k + 1, Len(h))

PushAll(h, dist, hops, path, m) ==
    LET RECURSIVE Go(_, _)
        Go(acc, i) ==
            IF i > Len(m) THEN acc
            ELSE Go(HeapPush(acc, [dist |-> dist + m[i].distance,
                                   hops |-> hops + 1,
                                   airport |-> m[i].dest,
                                   path |-> Append(path, m[i].dest)]), i + 1)
    IN Go(h, 1)

\* Variant: `hops > best_hops` in place of `hops >= best_hops`.
DominatedStrictly(e, b) ==
    /\ e.airport \in DOMAIN b
    /\ \/ e.dist > b[e.airport][1]
       \/ e.dist = b[e.airport][1] /\ e.hops > b[e.airport][2]

\* The skip test of least_distance on a popped entry.
Dominated(e, b) ==
    /\ e.airport \in DOMAIN b
    /\ \/ e.dist > b[e.airport][1]
       \/ e.dist = b[e.airport][1] /\ e.hops >= b[e.airport][2]

NoneValue == [tag |-> "None"]
Unset == [tag |-> "unset"]
PathValue(p) == [tag |-> "path", path |-> p]
DistPathValue(d, p) == [tag |-> "path", dist |-> d, path |-> p]

ZeroCount == [a \in Airports |-> 0]

\* --------------------------------------------------------------- ingestion
Row(dep, dest, ac, distance) ==
    [Departure |-> dep, Destination |-> dest, Aircraft |-> ac, Distance |-> distance]

\* The rows parse_routes_from_string may hand over: any integer distance.
AppRows ==
    {Row(dep, dest, ac, d) : dep \in AppAirports, dest \in AppAirports,
                             ac \in AppAircraft, d \in AppDistances}

RowSeqs == UNION {[1..n -> AppRows] : n \in 0..MaxRows}

\* Variant: no key is ever found in seen.
NeverSeen(item, seen) == FALSE

\* `if key not in seen`
Seen(item, seen) == item \in seen

\* unique_list: the key is the whole row; a key is recorded as seen before the
\* zero-distance test.
unique_list(items) ==
    LET RECURSIVE Go(_, _, _)
        Go(i, seen, result) ==
            IF i > Len(items) THEN result
            ELSE IF Seen(items[i], seen) THEN Go(i + 1, seen, result)
            ELSE IF items[i].Distance = 0 THEN Go(i + 1, seen \cup {items[i]}, result)
            ELSE Go(i + 1, seen \cup {items[i]}, Append(result, items[i]))
    IN Go(1, {}, <<>>)

\* Variant: the add loop stops one route early.
LoopDoneEarly(i, rs) == i >= Len(rs)

\* `for r in self.routes` has gone through every route.
LoopDone(i, rs) == i > Len(rs)

aircraft_list(rs) == {rs[i].Aircraft : i \in 1..Len(rs)}
airport_list(rs) ==
    {rs[i].Departure : i \in 1..Len(rs)} \cup {rs[i].Destination : i \in 1..Len(rs)}

\* next((edge['distance'] for edge in graph[a] if dest and aircraft match), 0)
LegDist(g, a, b, ac) ==
    LET m == SelectSeq(EdgesOf(g, a), LAMBDA e : e.dest = b /\ e.aircraft = ac)
    IN IF m = <<>> THEN 0 ELSE m[1].distance

\* The graph after the reads graph.graph[path[i]] of the leg loop.
RECURSIVE GetItems(_, _, _)
GetItems(g, path, n) == IF n = 0 THEN g ELSE GetItem(GetItems(g, path, n - 1), path[n])

\* ------------------------------------------------------------------- Init
Init ==
    /\ graph = EmptyGraph
    /\ rows = <<>>
    /\ routes = <<>>
    /\ loader = "none"
    /\ addIdx = 1
    /\ inputs = "disabled"
    /\ output = ""
    /\ start = 0
    /\ end = 0
    /\ aircraft = ""
    /\ pc = "idle"
    /\ queue = <<>>
    /\ visited = {}
    /\ pq = <<>>
    /\ best = EmptyGraph
    /\ fl = Unset
    /\ ld = Unset
    /\ legs = <<>>
    /\ graphAtCall = EmptyGraph
    /\ expandedFL = ZeroCount
    /\ expandedLD = ZeroCount
    /\ pops = 0

appVars == <<rows, routes, loader, addIdx, inputs, output>>
queryVars == <<start, end, aircraft, graphAtCall>>
bfsVars == <<queue, visited, fl, expandedFL>>
dijVars == <<pq, best, ld, expandedLD, pops>>

\* ------------------------------------------------ a bare RouteGraph in use
\* RouteGraph.add_route called by a client of the class.
AddRouteUpTo(n) ==
    /\ loader = "none"
    /\ pc = "idle"
    /\ NumEdges(graph) < n
    /\ \E dep \in Airports, dest \in Airports, ac \in Aircraft :
          \E d \in Distances(dep, dest, ac) : graph' = add_route(graph, dep, dest, ac, d)
    /\ UNCHANGED <<appVars, queryVars, bfsVars, dijVars, pc, legs>>

AddRoute == AddRouteUpTo(MaxRoutes)

AddRouteFair == AddRouteUpTo(MaxFairRoutes)

\* fewest_legs entered: lines 60-63.
EnterFewestLegs(s, e, ac) ==
    /\ start' = s
    /\ end' = e
    /\ aircraft' = ac
    /\ graphAtCall' = graph
    /\ pc' = "fewest_legs"
    /\ queue' = <<StartEntry(s)>>
    /\ visited' = {}
    /\ fl' = Unset
    /\ ld' = Unset
    /\ legs' = <<>>
    /\ expandedFL' = ZeroCount
    /\ expandedLD' = ZeroCount
    /\ pops' = 0
    /\ pq' = <<>>
    /\ best' = EmptyGraph

\* A client calls fewest_legs and then least_distance with the same arguments.
Query ==
    /\ loader = "none"
    /\ pc = "idle"
    /\ \E s \in Airports, e \in Airports, ac \in QueryAircraft : EnterFewestLegs(s, e, ac)
    /\ UNCHANGED <<graph, appVars>>

\* ------------------------------------------------------------- fewest_legs
\* `while queue` fails: return None.
FewestLegsExhausted ==
    /\ pc = "fewest_legs"
    /\ queue = <<>>
    /\ fl' = NoneValue
    /\ pc' = "fl_returned"
    /\ UNCHANGED <<graph, appVars, queryVars, queue, visited, expandedFL, dijVars, legs>>

\* popleft, `if airport == end: return path`.
FewestLegsFound ==
    /\ pc = "fewest_legs"
    /\ queue # <<>>
    /\ Head(queue).airport = end
    /\ fl' = PathValue(Head(queue).path)
    /\ queue' = Tail(queue)
    /\ pc' = "fl_returned"
    /\ UNCHANGED <<graph, appVars, queryVars, visited, expandedFL, dijVars, legs>>

\* popleft, `if airport in visited: continue`.
FewestLegsSkip ==
    /\ pc = "fewest_legs"
    /\ queue # <<>>
    /\ Head(queue).airport # end
    /\ AlreadyVisited(Head(queue).airport, visited)
    /\ queue' = Tail(queue)
    /\ UNCHANGED <<graph, appVars, queryVars, visited, fl, expandedFL, dijVars, legs, pc>>

\* popleft, visited.add, and the loop over graph.graph[airport].
FewestLegsExpand ==
    /\ pc = "fewest_legs"
    /\ queue # <<>>
    /\ Head(queue).airport # end
    /\ ~AlreadyVisited(Head(queue).airport, visited)
    /\ LET a == Head(queue).airport
           p == Head(queue).path
       IN /\ visited' = visited \cup {a}
          /\ graph' = GetItem(graph, a)
          /\ queue' = EnqueueAll(Tail(queue), p, Matching(EdgesOf(graph, a), aircraft))
          /\ expandedFL' = [expandedFL EXCEPT ![a] = @ + 1]
    /\ UNCHANGED <<appVars, queryVars, fl, dijVars, legs, pc>>

\* ---------------------------------------------------------- least_distance
\* least_distance entered: lines 106-109.
EnterLeastDistance ==
    /\ pc = "fl_returned"
    /\ pq' = <<StartHeapEntry(start)>>
    /\ best' = EmptyGraph
    /\ pc' = "least_distance"
    /\ UNCHANGED <<graph, appVars, queryVars, bfsVars, ld, expandedLD, pops, legs>>

AfterSearch == IF loader = "none" THEN "done" ELSE "render"

\* `while pq` fails: return None.
LeastDistanceExhausted ==
    /\ pc = "least_distance"
    /\ pq = <<>>
    /\ ld' = NoneValue
    /\ pc' = AfterSearch
    /\ UNCHANGED <<graph, appVars, queryVars, bfsVars, pq, best, expandedLD, pops, legs>>

\* heappop, `if airport == end: return dist, path`.
LeastDistanceFound ==
    /\ pc = "least_distance"
    /\ pq # <<>>
    /\ Head(pq).airport = end
    /\ ld' = DistPathValue(Head(pq).dist, Head(pq).path)
    /\ pq' = Tail(pq)
    /\ pops' = pops + 1
    /\ pc' = AfterSearch
    /\ UNCHANGED <<graph, appVars, queryVars, bfsVars, best, expandedLD, legs>>

\* heappop, a better (dist, hops) was recorded for the airport: continue.
LeastDistanceSkip ==
    /\ pc = "least_distance"
    /\ pq # <<>>
    /\ Head(pq).airport # end
    /\ Dominated(Head(pq), best)
    /\ loader # "none" => pops < MaxPops
    /\ pq' = Tail(pq)
    /\ pops' = pops + 1
    /\ UNCHANGED <<graph, appVars, queryVars, bfsVars, best, ld, expandedLD, legs, pc>>

\* heappop, visited[airport] = (dist, hops), and the loop over graph.graph[airport].
LeastDistanceExpand ==
    /\ pc = "least_distance"
    /\ pq # <<>>
    /\ Head(pq).airport # end
    /\ ~Dominated(Head(pq), best)
    /\ loader # "none" => pops < MaxPops
    /\ LET e == Head(pq)
       IN /\ best' = [x \in (DOMAIN best) \cup {e.airport} |->
                        IF x = e.airport THEN <<e.dist, e.hops>> ELSE best[x]]
          /\ graph' = GetItem(graph, e.airport)
          /\ pq' = PushAll(Tail(pq), e.dist, e.hops, e.path,
                           Matching(EdgesOf(graph, e.airport), aircraft))
          /\ expandedLD' = [expandedLD EXCEPT ![e.airport] = @ + 1]
    /\ pops' = pops + 1
    /\ UNCHANGED <<appVars, queryVars, bfsVars, ld, legs, pc>>

\* ---------------------------------------------------------- RouteFinderApp
\* RouteFinderApp.__init__ has returned: inputs disabled, loader thread started.
InitApp ==
    /\ graph = EmptyGraph
    /\ rows = <<>>
    /\ routes = <<>>
    /\ loader = "start"
    /\ addIdx = 1
    /\ inputs = "disabled"
    /\ output = ""
    /\ start = 0
    /\ end = 0
    /\ aircraft = ""
    /\ pc = "idle"
    /\ queue = <<>>
    /\ visited = {}
    /\ pq = <<>>
    /\ best = EmptyGraph
    /\ fl = Unset
    /\ ld = Unset
    /\ legs = <<>>
    /\ graphAtCall = EmptyGraph
    /\ expandedFL = ZeroCount
    /\ expandedLD = ZeroCount
    /\ pops = 0

searchVars == <<queryVars, bfsVars, dijVars, pc, legs>>

\* load_routes up to the add loop: fetch, parse, unique_list.
LoadRoutes ==
    /\ loader = "start"
    /\ \E rs \in RowSeqs :
          /\ rows' = rs
          /\ routes' = unique_list(rs)
    /\ addIdx' = 1
    /\ output' = "Loading routes from UPSVAC..."
    /\ loader' = "adding"
    /\ UNCHANGED <<graph, inputs, searchVars>>

\* requests.get raises: the thread ends, nothing is enabled.
LoadFails ==
    /\ loader = "start"
    /\ output' = "Loading routes from UPSVAC..."
    /\ loader' = "failed"
    /\ UNCHANGED <<graph, rows, routes, addIdx, inputs, searchVars>>

\* One iteration of `for r in self.routes: self.graph.add_route(...)`.
LoadAddRoute ==
    /\ loader = "adding"
    /\ ~LoopDone(addIdx, routes)
    /\ LET r == routes[addIdx]
       IN graph' = add_route(graph, r.Departure, r.Destination, r.Aircraft, r.Distance)
    /\ addIdx' = addIdx + 1
    /\ UNCHANGED <<rows, routes, loader, inputs, output, searchVars>>

\* The selection lists are built and enable_inputs runs.
LoadFinish ==
    /\ loader = "adding"
    /\ LoopDone(addIdx, routes)
    /\ output' = "Routes loaded."
    /\ inputs' = "normal"
    /\ loader' = "done"
    /\ UNCHANGED <<graph, rows, routes, addIdx, searchVars>>

\* "Find Routes" pressed with a field not selected: lines 408-410.
ComputeRoutesMissingField ==
    /\ inputs = "normal"
    /\ pc \in {"idle", "done"}
    /\ output' = "Please select all fields."
    /\ UNCHANGED <<graph, rows, routes, loader, addIdx, inputs, searchVars>>

\* "Find Routes" pressed with the three fields picked from the selection
\* lists: compute_routes up to the call of fewest_legs.
ComputeRoutes ==
    /\ inputs = "normal"
    /\ pc \in {"idle", "done"}
    /\ \E s \in airport_list(routes), e \in airport_list(routes),
          ac \in aircraft_list(routes) : EnterFewestLegs(s, e, ac)
    /\ output' = "Calculating routes"
    /\ UNCHANGED <<graph, rows, routes, loader, addIdx, inputs>>

\* compute_routes from line 419: the results and the per-leg distances.
Render ==
    /\ pc = "render"
    /\ IF ld.tag = "path"
         THEN /\ legs' = [i \in 1..(Len(ld.path) - 1) |->
                            LegDist(graph, ld.path[i], ld.path[i + 1], aircraft)]
              /\ graph' = GetItems(graph, ld.path, Len(ld.path) - 1)
         ELSE /\ legs' = <<>>
              /\ graph' = graph
    /\ output' = "results"
    /\ pc' = "done"
    /\ UNCHANGED <<rows, routes, loader, addIdx, inputs, queryVars, bfsVars, dijVars>>

Search ==
    \/ FewestLegsExhausted
    \/ FewestLegsFound
    \/ FewestLegsSkip
    \/ FewestLegsExpand
    \/ EnterLeastDistance
    \/ LeastDistanceExhausted
    \/ LeastDistanceFound
    \/ LeastDistanceSkip
    \/ LeastDistanceExpand

Next ==
    \/ AddRoute
    \/ Query
    \/ Search

Spec == Init /\ [][Next]_vars

NextApp ==
    \/ LoadRoutes
    \/ LoadFails
    \/ LoadAddRoute
    \/ LoadFinish
    \/ ComputeRoutesMissingField
    \/ ComputeRoutes
    \/ Search
    \/ Render

SpecApp == InitApp /\ [][NextApp]_vars

\* The caller keeps running a search it has entered.
NextFair ==
    \/ AddRouteFair
    \/ Query
    \/ Search

SpecFair == Init /\ [][NextFair]_vars /\ WF_vars(Search)

\* ---------------------------------------------- reference notions on graphs
\* The edges of aircraft ac as (departure, destination, distance) triples.
AEdges(g, ac) ==
    UNION {{<<u, g[u][i].dest, g[u][i].distance>> :
               i \in {j \in 1..Len(g[u]) : g[u][j].aircraft = ac}} : u \in DOMAIN g}

\* The airports reached from s by a walk of exactly k edges of E.
RECURSIVE HopReach(_, _, _)
HopReach(E, s, k) ==
    IF k = 0 THEN {s}
    ELSE LET R == HopReach(E, s, k - 1)
         IN {t[2] : t \in {x \in E : x[1] \in R}}

\* The airports reached from s by any walk of E (a walk that reaches an airport
\* contains a path to it of fewer edges than there are airports).
Reachable(E, s) == UNION {HopReach(E, s, k) : k \in 0..Cardinality(Airports)}

\* (airport, distance, hops) of every walk from s over E of total distance at
\* most D; finite when the distances of E are positive.
WalkCosts(E, s, D) ==
    LET RECURSIVE Close(_)
        Close(S) ==
            LET N == S \cup {y \in {<<x[2], t[2] + x[3], t[3] + 1>> : t \in S, x \in E} :
                                y[2] <= D /\ \E t \in S, x \in E :
                                    x[1] = t[1] /\ y = <<x[2], t[2] + x[3], t[3] + 1>>}
            IN IF N = S THEN S ELSE Close(N)
    IN Close({<<s, 0, 0>>})

\* The totals obtainable by picking one edge of E for each leg of path P.
LegSums(E, P) ==
    LET RECURSIVE Upto(_)
        Upto(i) ==
            IF i = 1 THEN {0}
            ELSE {t + x[3] : t \in Upto(i - 1),
                             x \in {y \in E : y[1] = P[i - 1] /\ y[2] = P[i]}}
    IN Upto(Len(P))

QueryEdges == AEdges(graphAtCall, aircraft)

\* ------------------------------------------------------------------ claims
\* C1: a path P returned by fewest_legs starts at start, ends at end, every
\* consecutive pair of P is joined by an edge of the requested aircraft, and no
\* walk of fewer edges of that aircraft leads from start to end.
C1_FewestLegsMinimal ==
    fl.tag = "path" =>
        LET P == fl.path
        IN /\ Len(P) >= 1
           /\ P[1] = start
           /\ P[Len(P)] = end
           /\ \A i \in 1..(Len(P) - 1) :
                 \E x \in QueryEdges : x[1] = P[i] /\ x[2] = P[i + 1]
           /\ \A k \in 0..(Len(P) - 2) : end \notin HopReach(QueryEdges, start, k)

\* fewest_legs returned a two-leg path although an edge of the other aircraft
\* joins start and end directly.
C1_Witness ==
    /\ fl.tag = "path"
    /\ Len(fl.path) = 3
    /\ \E x \in AEdges(graphAtCall, "Y") : x[1] = start /\ x[2] = end

\* C2: when least_distance returns (D, P) on a graph of positive distances, D
\* is the sum of the distances of edges of the requested aircraft along P from
\* start to end, and no walk of such edges from start to end is shorter than D.
C2_LeastDistanceMinimal ==
    ld.tag = "path" =>
        LET P == ld.path
            D == ld.dist
        IN /\ Len(P) >= 1
           /\ P[1] = start
           /\ P[Len(P)] = end
           /\ D \in LegSums(QueryEdges, P)
           /\ \A t \in WalkCosts(QueryEdges, start, D) : t[1] = end => t[2] >= D

\* least_distance returned a two-leg path that is shorter than a direct edge.
C2_Witness ==
    /\ ld.tag = "path"
    /\ Len(ld.path) = 3
    /\ \E x \in QueryEdges : x[1] = start /\ x[2] = end /\ x[3] > ld.dist

\* C3: the path least_distance returns has the fewest legs among the walks from
\* start to end whose total distance is the minimum D.
C3_FewestHopsOnTie ==
    ld.tag = "path" =>
        \A t \in WalkCosts(QueryEdges, start, ld.dist) :
            (t[1] = end /\ t[2] = ld.dist) => Len(ld.path) - 1 <= t[3]

\* least_distance returned the direct edge while a two-leg walk has the same
\* total distance.
C3_Witness ==
    /\ ld.tag = "path"
    /\ Len(ld.path) = 2
    /\ <<end, ld.dist, 2>> \in WalkCosts(QueryEdges, start, ld.dist)

\* C4: while and after the searches run, the graph mapping (its keys and each
\* key's edges) is the mapping the query started with.
C4_GraphUnchanged == pc # "idle" => graph = graphAtCall

\* C5: with start = end, fewest_legs returns [start] and least_distance returns
\* (0, [start]), neither having expanded an airport or touched the graph.
C5_SameAirport ==
    start = end =>
        /\ fl.tag # "unset" => /\ fl = PathValue(<<start>>)
                               /\ expandedFL = ZeroCount
        /\ ld.tag # "unset" => /\ ld = DistPathValue(0, <<start>>)
                               /\ expandedLD = ZeroCount
                               /\ graph = graphAtCall

\* Both searches returned for an airport without an adjacency entry in a graph
\* that has routes.
C5_Witness ==
    /\ pc = "done"
    /\ start = end
    /\ start \notin DOMAIN graph
    /\ DOMAIN graph # {}

C9_TerminatesExpandingOnce ==
    /\ [](\A a \in Airports : expandedFL[a] <= 1 /\ expandedLD[a] <= 1)
    /\ (pc = "fewest_legs") ~> (pc = "fl_returned")
    /\ (pc = "least_distance") ~> (pc = "done")

\* Both searches returned None on a graph whose two routes form a cycle through
\* start, each airport of the cycle expanded once by each search.
C9_Witness ==
    /\ pc = "done"
    /\ fl.tag = "None"
    /\ ld.tag = "None"
    /\ \E x \in QueryEdges, y \in QueryEdges :
          /\ x[1] = start /\ x[2] # start /\ y[1] = x[2] /\ y[2] = start
          /\ expandedFL[x[2]] = 1 /\ expandedLD[x[2]] = 1
    /\ expandedFL[start] = 1
    /\ expandedLD[start] = 1

\* The graph load_routes builds from the routes: every route added, in order.
BuiltGraph(rs) ==
    LET RECURSIVE Go(_)
        Go(n) == IF n = 0 THEN EmptyGraph
                 ELSE add_route(Go(n - 1), rs[n].Departure, rs[n].Destination,
                                rs[n].Aircraft, rs[n].Distance)
    IN Go(Len(rs))

\* C7: whenever the inputs are enabled or compute_routes is running its
\* searches, load_routes has added every route: the graph read holds exactly
\* the edges of all routes.
C7_QueriesSeeBuiltGraph ==
    (inputs = "normal" \/ pc # "idle") =>
        /\ loader = "done"
        /\ \A a \in Airports : EdgesOf(graph, a) = EdgesOf(BuiltGraph(routes), a)

\* fewest_legs is running on a graph of two routes.
C7_Witness ==
    /\ pc = "fewest_legs"
    /\ Len(routes) = 2
    /\ NumEdges(graph) = 2

NoDuplicateEdges(g) ==
    \A a \in DOMAIN g : \A i, j \in 1..Len(g[a]) : g[a][i] = g[a][j] => i = j

\* C8 as stated: the graph built from unique_list's output holds only edges of
\* strictly positive distance, and no edge twice.
C8_PositiveAndUnique ==
    /\ \A a \in DOMAIN graph : \A i \in 1..Len(graph[a]) : graph[a][i].distance > 0
    /\ NoDuplicateEdges(graph)

\* C8 amended: the graph built from unique_list's output holds no edge of
\* distance zero and no edge twice (negative distances are kept).
C8_NonZeroAndUnique ==
    /\ \A a \in DOMAIN graph : \A i \in 1..Len(graph[a]) : graph[a][i].distance # 0
    /\ NoDuplicateEdges(graph)

\* The load finished on rows holding a zero-distance row and the same
\* negative-distance row twice: one edge is in the graph.
C8_Witness ==
    /\ loader = "done"
    /\ Len(rows) = 3
    /\ rows[1] = rows[3]
    /\ rows[1].Distance < 0
    /\ rows[2].Distance = 0
    /\ NumEdges(graph) = 1

SumSeq(q) ==
    LET RECURSIVE Go(_)
        Go(n) == IF n = 0 THEN 0 ELSE q[n] + Go(n - 1)
    IN Go(Len(q))

PositiveDistances(g) ==
    \A a \in DOMAIN g : \A i \in 1..Len(g[a]) : g[a][i].distance > 0

\* C10: when least_distance returned (D, P), the per-leg distances that
\* compute_routes writes for the legs of P are non-zero and sum to D; stated
\* here for the graphs of positive distances alone.
C10_LegsSumToTotal ==
    (pc = "done" /\ ld.tag = "path" /\ PositiveDistances(graph)) =>
        /\ Len(legs) = Len(ld.path) - 1
        /\ \A i \in 1..Len(legs) : legs[i] # 0
        /\ SumSeq(legs) = ld.dist

====
